---- MODULE Spec2Model ----
(***************************************************************************)
(* Model of the netpaca-optics interface DOM collector: the threshold      *)
(* classifier of the Arista eAPI adapter, the interface eligibility rule   *)
(* and the get_dom_metrics coroutine of each of the four device adapters   *)
(* (eapi, ios_ssh, nxos_ssh, nxapi), and the polls of two devices          *)
(* interleaved at the await of their device commands.                      *)
(*                                                                         *)
(* Python values are modelled as follows.                                  *)
(*   - a float measurement is an integer; only its order matters;          *)
(*   - an interface name is a sequence of string tokens, so that           *)
(*     "Eth1" is <<"Eth","1">> and "Ethernet1" is <<"Eth","ernet","1">>;   *)
(*     str.replace and str.startswith act on the tokens;                   *)
(*   - a metric value is tagged with its python type: [float |-> 3],       *)
(*     [int |-> 2], [str |-> "++"];                                        *)
(*   - a list of metrics is a bag (no consumer relies on the order);       *)
(*   - a dict is a function whose DOMAIN is the set of keys.               *)
(***************************************************************************)
EXTENDS Integers, Sequences, FiniteSets, Bags, TLC

\* ------------------------------------------------------------------------
\*                                bounds
\* ------------------------------------------------------------------------

\* measurements and thresholds range over 0..MaxVal
MaxVal == 5

\* a fetched collection (status table, optics table) holds at most MaxIfs
\* interfaces
MaxIfs == 2

VARIABLES
    adapter,            \* which device driver / adapter module is polled
    include_linkdown,   \* config.include_linkdown
    dom_res,            \* result of the optics command
    st_res,             \* result of the status / description command
    pc,                 \* "start" before the first poll, "done" after one
    outcome,            \* what get_dom_metrics did: raised / returned
    cl_x, cl_y,         \* classifier inputs: two values
    cl_thr,             \* classifier input: a threshold set
    cl_rx, cl_ry,       \* classifier results for cl_x and cl_y
    cl_pc,              \* "input" before the classifier ran, "done" after
    devs                \* two devices polled concurrently: for each device
                        \* the arguments, locals and result of its call

vars == <<adapter, include_linkdown, dom_res, st_res, pc, outcome,
          cl_x, cl_y, cl_thr, cl_rx, cl_ry, cl_pc, devs>>

pollvars == <<adapter, include_linkdown, dom_res, st_res, pc, outcome>>
clvars == <<cl_x, cl_y, cl_thr, cl_rx, cl_ry, cl_pc>>

\* ------------------------------------------------------------------------
\*                      eapi.py: threshold classifier
\* ------------------------------------------------------------------------

Vals == 0..MaxVal

\* the four bounds of the "details" dict of one measurement
Thresholds == [lowAlarm: Vals, lowWarn: Vals, highWarn: Vals, highAlarm: Vals]

\* bug variant: exclusive comparisons
threshold_outside_strict(value, thresholds) ==
    IF value < thresholds["lowAlarm"] \/ value > thresholds["highAlarm"]
    THEN 2
    ELSE IF value < thresholds["lowWarn"] \/ value > thresholds["highWarn"]
         THEN 1
         ELSE 0

\* bug variant: the warn test comes first
threshold_outside_warnfirst(value, thresholds) ==
    IF value <= thresholds["lowWarn"] \/ value >= thresholds["highWarn"]
    THEN 1
    ELSE IF value <= thresholds["lowAlarm"] \/ value >= thresholds["highAlarm"]
         THEN 2
         ELSE 0

\* bug variant: the alarm test compares with == instead of <= and >=
threshold_outside_eq(value, thresholds) ==
    IF value = thresholds["lowAlarm"] \/ value = thresholds["highAlarm"]
    THEN 2
    ELSE IF value <= thresholds["lowWarn"] \/ value >= thresholds["highWarn"]
         THEN 1
         ELSE 0

_threshold_outside(value, thresholds) ==
    IF value <= thresholds["lowAlarm"] \/ value >= thresholds["highAlarm"]
    THEN 2
    ELSE IF value <= thresholds["lowWarn"] \/ value >= thresholds["highWarn"]
         THEN 1
         ELSE 0

\* ------------------------------------------------------------------------
\*                      __init__.py: the metric model
\* ------------------------------------------------------------------------

\* conint(ge=0, le=2): the value must be an integer between 0 and 2
\* bug variant: no constraint on the status value
IFdomStatusValue_unconstrained(v) == TRUE

_IFdomStatusValue(v) == "int" \in DOMAIN v /\ v["int"] >= 0 /\ v["int"] <= 2

\* the dataclasses; vtype is the annotation of the value field
IFdomTempMetric(value, tags) ==
    [name |-> "ifdom_temp", vtype |-> "float", value |-> value, tags |-> tags]

IFdomTempStatusMetric(value, tags) ==
    [name |-> "ifdom_temp_status", vtype |-> "status", value |-> value, tags |-> tags]

IFdomRxPowerMetric(value, tags) ==
    [name |-> "ifdom_rxpower", vtype |-> "float", value |-> value, tags |-> tags]

IFdomRxPowerStatusMetric(value, tags) ==
    [name |-> "ifdom_rxpower_status", vtype |-> "status", value |-> value, tags |-> tags]

IFdomTxPowerMetric(value, tags) ==
    [name |-> "ifdom_txpower", vtype |-> "float", value |-> value, tags |-> tags]

IFdomTxPowerStatusMetric(value, tags) ==
    [name |-> "ifdom_txpower_status", vtype |-> "status", value |-> value, tags |-> tags]

IFdomVoltageMetric(value, tags) ==
    [name |-> "ifdom_voltage", vtype |-> "float", value |-> value, tags |-> tags]

IFdomVoltageStatusMetric(value, tags) ==
    [name |-> "ifdom_voltag_status", vtype |-> "status", value |-> value, tags |-> tags]

\* pydantic validates the value field when a dataclass is constructed; a
\* status metric whose value is no integer in 0..2 raises ValidationError
pydantic_validates(m) ==
    m.vtype = "status" => _IFdomStatusValue(m.value)

\* what one call of get_dom_metrics does: exception exc leaves the coroutine
RaiseExc(exc) ==
    [raised |-> TRUE, ret |-> "exception", exc |-> exc, metrics |-> EmptyBag]

Raise == RaiseExc("Exception")

ReturnNone == [raised |-> FALSE, ret |-> "None", metrics |-> EmptyBag]

\* list(...) over the generated metrics, where M[i] is the set of metrics
\* constructed for entry i (an interface name or a row number): an exception
\* raised by any constructor propagates out of the call
ReturnList(M) ==
    IF \E i \in DOMAIN M : \E m \in M[i] : ~pydantic_validates(m)
    THEN Raise
    ELSE LET U == UNION {M[i] : i \in DOMAIN M}
         IN  [raised |-> FALSE,
              ret |-> "list",
              metrics |-> [m \in U |-> Cardinality({i \in DOMAIN M : m \in M[i]})]]

\* ------------------------------------------------------------------------
\*                 cisco_helpers.py: vendor flag translation
\* ------------------------------------------------------------------------

from_ifdomflag_to_status(flag) ==
    IF flag \in {"++", "--"} THEN 2
    ELSE IF flag \in {"+", "-"} THEN 1
    ELSE 0

\* ------------------------------------------------------------------------
\*                      python string helpers
\* ------------------------------------------------------------------------

\* str.replace("Eth", "Ethernet") on a tokenized name: every "Eth" token
\* becomes "Eth", "ernet"
RECURSIVE replace_Eth_Ethernet(_)
replace_Eth_Ethernet(name) ==
    IF name = <<>> THEN <<>>
    ELSE IF Head(name) = "Eth"
         THEN <<"Eth", "ernet">> \o replace_Eth_Ethernet(Tail(name))
         ELSE <<Head(name)>> \o replace_Eth_Ethernet(Tail(name))

\* str.startswith("Eth")
startswith_Eth(name) == name # <<>> /\ Head(name) = "Eth"

\* str.strip() on the strings the device can send
py_strip(s) ==
    IF s = " " THEN ""
    ELSE IF s = " uplink " THEN "uplink"
    ELSE s

\* ------------------------------------------------------------------------
\*                 what the devices can answer (bounded)
\* ------------------------------------------------------------------------

Adapters == {"eapi", "ios_ssh", "nxos_ssh", "nxapi"}

Eth1 == <<"Eth", "1">>
Eth2 == <<"Eth", "2">>
Ethernet1 == <<"Eth", "ernet", "1">>
Ethernet2 == <<"Eth", "ernet", "2">>
mgmt0 == <<"mgmt0">>

\* interface names of the status / description output
StNames(a) ==
    IF a = "nxos_ssh" THEN {Eth1, Eth2, Ethernet1, mgmt0}
    ELSE {Ethernet1, Ethernet2}

\* interface names of the optics output
DomNames(a) ==
    IF a = "nxos_ssh" THEN {Ethernet1, Ethernet2, mgmt0}
    ELSE {Ethernet1, Ethernet2}

\* dicts keyed by at most MaxIfs interface names
Tables(Names, Recs) ==
    UNION {[S -> Recs] : S \in {T \in SUBSET Names : Cardinality(T) <= MaxIfs}}

\* lists of at most MaxIfs rows
Lists(Rows) == UNION {[1..n -> Rows] : n \in 0..MaxIfs}

\* the measurements of one record differ from kind to kind: kind number i
\* of record number s reads Rot(s, i)
Rot(s, i) == (s + i) % (MaxVal + 1)

\* the interface states the vendors report
EapiStatusVals == {"adminDown", "up", "notconnect"}
CiscoStatusVals == {"disabled", "connected", "notconnect"}

\* the vendor alarm / warning flags of the Cisco outputs; "" is no flag
FlagSeq == <<"++", "+", "", "-", "--">>
FlagRot(s, i) == FlagSeq[((s + i) % Len(FlagSeq)) + 1]

\* ---- Arista eAPI ----

EapiDetails ==
    {[rxPower     |-> [lowAlarm |-> 0, lowWarn |-> 1, highWarn |-> 3, highAlarm |-> 4],
      txPower     |-> [lowAlarm |-> 0, lowWarn |-> 1, highWarn |-> 3, highAlarm |-> 4],
      temperature |-> [lowAlarm |-> 0, lowWarn |-> 1, highWarn |-> 3, highAlarm |-> 4],
      voltage     |-> [lowAlarm |-> 0, lowWarn |-> 1, highWarn |-> 3, highAlarm |-> 4]],
     [rxPower     |-> [lowAlarm |-> 1, lowWarn |-> 2, highWarn |-> 4, highAlarm |-> 5],
      txPower     |-> [lowAlarm |-> 0, lowWarn |-> 2, highWarn |-> 3, highAlarm |-> 5],
      temperature |-> [lowAlarm |-> 0, lowWarn |-> 0, highWarn |-> 2, highAlarm |-> 3],
      voltage     |-> [lowAlarm |-> 2, lowWarn |-> 3, highWarn |-> 5, highAlarm |-> 5]]}

\* one entry of "interfaces": {} for a port without DOM, else the readings
EapiDomRecs ==
    {<<>>} \cup
    {[mediaType |-> "10GBASE-SR",
      txPower |-> Rot(s, 0), rxPower |-> Rot(s, 1),
      temperature |-> Rot(s, 2), voltage |-> Rot(s, 3),
      details |-> d] : s \in Vals, d \in EapiDetails}

\* "description" is the empty string when none is configured
EapiDescRecs == [interfaceStatus : EapiStatusVals, description : {"uplink", ""}]

\* a failed eAPI command carries an error payload and not the expected dict
EapiDomResults ==
    {[ok |-> TRUE, output |-> [interfaces |-> t]] :
        t \in Tables(DomNames("eapi"), EapiDomRecs)}
    \cup {[ok |-> FALSE, output |-> [errors |-> "failed"]]}

EapiDescResults ==
    {[ok |-> TRUE, output |-> [interfaceDescriptions |-> t]] :
        t \in Tables(StNames("eapi"), EapiDescRecs)}
    \cup {[ok |-> FALSE, output |-> [errors |-> "failed"]]}

\* ------------------------------------------------------------------------
\*                        eapi.py: get_dom_metrics
\* ------------------------------------------------------------------------

__ok_process_if(ifs_desc, config_include_linkdown, if_name) ==
    IF if_name \notin DOMAIN ifs_desc THEN FALSE
    ELSE LET if_status == ifs_desc[if_name]["interfaceStatus"]
         IN  IF if_status = "adminDown" THEN FALSE
             ELSE IF config_include_linkdown THEN TRUE
             ELSE if_status = "up"

\* bug variant: the rxPower status is classified against the txPower
\* thresholds
make_if_metrics_txthresholds(if_name, if_dom_data, if_desc) ==
    LET c_tags == [if_name |-> if_name,
                   if_desc |-> IF if_desc # "" THEN if_desc ELSE "MISSING-DESCRIPTION",
                   media |-> if_dom_data["mediaType"]]
        thresholds == if_dom_data["details"]
    IN  {IFdomTxPowerMetric([float |-> if_dom_data["txPower"]], c_tags),
         IFdomRxPowerMetric([float |-> if_dom_data["rxPower"]], c_tags),
         IFdomTempMetric([float |-> if_dom_data["temperature"]], c_tags),
         IFdomVoltageMetric([float |-> if_dom_data["voltage"]], c_tags),
         IFdomRxPowerStatusMetric(
            [int |-> _threshold_outside(if_dom_data["rxPower"], thresholds["txPower"])],
            c_tags),
         IFdomTxPowerStatusMetric(
            [int |-> _threshold_outside(if_dom_data["txPower"], thresholds["txPower"])],
            c_tags),
         IFdomTempStatusMetric(
            [int |-> _threshold_outside(if_dom_data["temperature"],
                                        thresholds["temperature"])],
            c_tags),
         IFdomVoltageStatusMetric(
            [int |-> _threshold_outside(if_dom_data["voltage"], thresholds["voltage"])],
            c_tags)}

_make_if_metrics(if_name, if_dom_data, if_desc) ==
    LET c_tags == [if_name |-> if_name,
                   if_desc |-> IF if_desc # "" THEN if_desc ELSE "MISSING-DESCRIPTION",
                   media |-> if_dom_data["mediaType"]]
        thresholds == if_dom_data["details"]
    IN  {IFdomTxPowerMetric([float |-> if_dom_data["txPower"]], c_tags),
         IFdomRxPowerMetric([float |-> if_dom_data["rxPower"]], c_tags),
         IFdomTempMetric([float |-> if_dom_data["temperature"]], c_tags),
         IFdomVoltageMetric([float |-> if_dom_data["voltage"]], c_tags),
         IFdomRxPowerStatusMetric(
            [int |-> _threshold_outside(if_dom_data["rxPower"], thresholds["rxPower"])],
            c_tags),
         IFdomTxPowerStatusMetric(
            [int |-> _threshold_outside(if_dom_data["txPower"], thresholds["txPower"])],
            c_tags),
         IFdomTempStatusMetric(
            [int |-> _threshold_outside(if_dom_data["temperature"],
                                        thresholds["temperature"])],
            c_tags),
         IFdomVoltageStatusMetric(
            [int |-> _threshold_outside(if_dom_data["voltage"], thresholds["voltage"])],
            c_tags)}

\* bug variant: the test "if if_dom_data" is missing, so that the empty
\* dict of a port without DOM reaches _make_if_metrics (KeyError)
eapi_get_dom_metrics_nodomtest(if_dom_res, if_desc_res, config_include_linkdown) ==
    IF ~if_dom_res.ok THEN ReturnNone
    ELSE IF "interfaceDescriptions" \notin DOMAIN if_desc_res.output THEN Raise
    ELSE IF "interfaces" \notin DOMAIN if_dom_res.output THEN Raise
    ELSE LET ifs_desc == if_desc_res.output["interfaceDescriptions"]
             ifs_dom == if_dom_res.output["interfaces"]
             selected == {if_name \in DOMAIN ifs_dom :
                            __ok_process_if(ifs_desc, config_include_linkdown, if_name)}
             M == [if_name \in selected |->
                      _make_if_metrics(if_name, ifs_dom[if_name],
                                       ifs_desc[if_name]["description"])]
         IN  IF \E if_name \in selected : DOMAIN ifs_dom[if_name] = {}
             THEN Raise
             ELSE ReturnList(M)

eapi_get_dom_metrics(if_dom_res, if_desc_res, config_include_linkdown) ==
    IF ~if_dom_res.ok THEN ReturnNone
    ELSE IF "interfaceDescriptions" \notin DOMAIN if_desc_res.output THEN Raise
    ELSE IF "interfaces" \notin DOMAIN if_dom_res.output THEN Raise
    ELSE LET ifs_desc == if_desc_res.output["interfaceDescriptions"]
             ifs_dom == if_dom_res.output["interfaces"]
             selected == {if_name \in DOMAIN ifs_dom :
                            /\ DOMAIN ifs_dom[if_name] # {}
                            /\ __ok_process_if(ifs_desc, config_include_linkdown, if_name)}
             M == [if_name \in selected |->
                      _make_if_metrics(if_name, ifs_dom[if_name],
                                       ifs_desc[if_name]["description"])]
         IN  ReturnList(M)

\* ------------------------------------------------------------------------
\*              ios_ssh.py and nxos_ssh.py: get_dom_metrics
\* ------------------------------------------------------------------------

\* one record of parse_show_interface_transceiver
SshDomRecs ==
    {[rxpower |-> Rot(s, 0), txpower |-> Rot(s, 1),
      temp |-> Rot(s, 2), voltage |-> Rot(s, 3),
      rxpower_flag |-> FlagRot(s, 0), txpower_flag |-> FlagRot(s, 1),
      temp_flag |-> FlagRot(s, 2), voltage_flag |-> FlagRot(s, 3)] :
        s \in 0..(Len(FlagSeq) - 1)}

\* one record of parse_show_interfaces_status
SshStatusRecs ==
    [if_status : CiscoStatusVals, if_desc : {"uplink", ""}, if_type : {"10Gbase-SR"}]

\* a response of send_commands; "parsed" is what the parse_show_* function
\* of the driver reads from the text of the response, which is nothing when
\* the command failed
SshDomResults(a) ==
    {[failed |-> FALSE, parsed |-> t] : t \in Tables(DomNames(a), SshDomRecs)}
    \cup {[failed |-> TRUE, parsed |-> <<>>]}

\* a status table lists a port once: never under both of its spellings
OnePerPort(t) == ~(Eth1 \in DOMAIN t /\ Ethernet1 \in DOMAIN t)

SshStatusResults(a) ==
    {[failed |-> FALSE, parsed |-> t] :
        t \in {u \in Tables(StNames(a), SshStatusRecs) : OnePerPort(u)}}
    \cup {[failed |-> TRUE, parsed |-> <<>>]}

\* bug variant: administratively disabled interfaces are not filtered out
allow_interface_noadmin(config_include_linkdown, if_status) ==
    IF config_include_linkdown THEN TRUE
    ELSE if_status = "connected"

ios_allow_interface(config_include_linkdown, if_status) ==
    IF if_status = "disabled" THEN FALSE
    ELSE IF config_include_linkdown THEN TRUE
    ELSE if_status = "connected"

ios_generate_if_metrics(if_name, if_st_data, if_dom_data) ==
    LET if_tags == [if_name |-> if_name,
                    if_desc |-> if_st_data["if_desc"],
                    media |-> if_st_data["if_type"]]
    IN  {IFdomRxPowerMetric([float |-> if_dom_data["rxpower"]], if_tags),
         IFdomTxPowerMetric([float |-> if_dom_data["txpower"]], if_tags),
         IFdomTempMetric([float |-> if_dom_data["temp"]], if_tags),
         IFdomVoltageMetric([float |-> if_dom_data["voltage"]], if_tags),
         IFdomRxPowerStatusMetric([str |-> if_dom_data["rxpower_flag"]], if_tags),
         IFdomTxPowerStatusMetric([str |-> if_dom_data["txpower_flag"]], if_tags),
         IFdomTempStatusMetric([str |-> if_dom_data["temp_flag"]], if_tags),
         IFdomVoltageStatusMetric([str |-> if_dom_data["voltage_flag"]], if_tags)}

ios_get_dom_metrics(cli_show_ifs_st, cli_show_ifs_optics, config_include_linkdown) ==
    LET ifs_status_data == cli_show_ifs_st.parsed
        ifs_dom_data == cli_show_ifs_optics.parsed
    IN  IF DOMAIN ifs_dom_data = {} THEN ReturnNone
        ELSE LET ok_ifs == {if_name \in DOMAIN ifs_status_data :
                              ios_allow_interface(config_include_linkdown,
                                  ifs_status_data[if_name]["if_status"])}
                 M == [if_name \in ok_ifs \cap DOMAIN ifs_dom_data |->
                          ios_generate_if_metrics(if_name,
                              ifs_status_data[if_name], ifs_dom_data[if_name])]
             IN  ReturnList(M)

nxos_allow_interface(config_include_linkdown, if_status) ==
    IF if_status = "disabled" THEN FALSE
    ELSE IF config_include_linkdown THEN TRUE
    ELSE if_status = "connected"

nxos_generate_if_metrics(if_name, if_st_data, if_dom_data) ==
    LET if_tags == [if_name |-> if_name,
                    if_desc |-> if_st_data["if_desc"],
                    media |-> if_st_data["if_type"]]
    IN  {IFdomRxPowerMetric([float |-> if_dom_data["rxpower"]], if_tags),
         IFdomTxPowerMetric([float |-> if_dom_data["txpower"]], if_tags),
         IFdomTempMetric([float |-> if_dom_data["temp"]], if_tags),
         IFdomVoltageMetric([float |-> if_dom_data["voltage"]], if_tags),
         IFdomRxPowerStatusMetric(
            [int |-> from_ifdomflag_to_status(if_dom_data["rxpower_flag"])], if_tags),
         IFdomTxPowerStatusMetric(
            [int |-> from_ifdomflag_to_status(if_dom_data["txpower_flag"])], if_tags),
         IFdomTempStatusMetric(
            [int |-> from_ifdomflag_to_status(if_dom_data["temp_flag"])], if_tags),
         IFdomVoltageStatusMetric(
            [int |-> from_ifdomflag_to_status(if_dom_data["voltage_flag"])], if_tags)}

\* bug variant: the test if_name.startswith("Eth") is missing
nxos_normalize_nofilter(ifs_status_data) ==
    [key \in {replace_Eth_Ethernet(if_name) : if_name \in DOMAIN ifs_status_data} |->
        ifs_status_data[CHOOSE if_name \in DOMAIN ifs_status_data :
                            replace_Eth_Ethernet(if_name) = key]]

\* bug variant: the keys of the status table are not renamed
nxos_normalize_noreplace(ifs_status_data) ==
    LET kept == {if_name \in DOMAIN ifs_status_data : startswith_Eth(if_name)}
    IN  [key \in kept |-> ifs_status_data[key]]

\* the dict comprehension that renames the keys of the status table; no two
\* names of StNames are renamed to the same key
nxos_normalize(ifs_status_data) ==
    LET kept == {if_name \in DOMAIN ifs_status_data : startswith_Eth(if_name)}
    IN  [key \in {replace_Eth_Ethernet(if_name) : if_name \in kept} |->
            ifs_status_data[CHOOSE if_name \in kept :
                                replace_Eth_Ethernet(if_name) = key]]

nxos_get_dom_metrics(cli_show_ifs_st, cli_show_ifs_optics, config_include_linkdown) ==
    LET ifs_dom_data == cli_show_ifs_optics.parsed
    IN  IF DOMAIN ifs_dom_data = {} THEN ReturnNone
        ELSE LET ifs_status_data == nxos_normalize(cli_show_ifs_st.parsed)
                 ok_ifs == {if_name \in DOMAIN ifs_status_data :
                              nxos_allow_interface(config_include_linkdown,
                                  ifs_status_data[if_name]["if_status"])}
                 M == [if_name \in ok_ifs \cap DOMAIN ifs_dom_data |->
                          nxos_generate_if_metrics(if_name,
                              ifs_status_data[if_name], ifs_dom_data[if_name])]
             IN  ReturnList(M)

\* ------------------------------------------------------------------------
\*                        nxapi.py: get_dom_metrics
\* ------------------------------------------------------------------------

\* the type and partnum children of a ROW_interface: an element without text
\* reads as "" (None in python), an element the device left out is no key
NxapiMediaSeq ==
    <<[type |-> "SFP-10G-SR", partnum |-> "P1"],
      [type |-> "", partnum |-> "P1"],
      [partnum |-> "P1"],
      [type |-> "", partnum |-> ""],
      [type |-> "SFP-10G-SR"]>>

\* the media fields differ from record to record and from port to port
NxapiMedia(s, n) ==
    LET k == IF n = Ethernet1 THEN 0 ELSE 2
    IN  NxapiMediaSeq[((s + k) % Len(NxapiMediaSeq)) + 1]

\* _row_to_dict of one ROW_interface[sfp="present" and temperature] element;
\* a child element the device left out is a key the dict does not have
NxapiDomRows ==
    {[interface |-> n,
      voltage |-> Rot(s, 3), tx_pwr |-> Rot(s, 1),
      rx_pwr |-> Rot(s, 0), temperature |-> Rot(s, 2),
      rx_pwr_flag |-> FlagRot(s, 0), tx_pwr_flag |-> FlagRot(s, 1),
      volt_flag |-> FlagRot(s, 3), temp_flag |-> FlagRot(s, 2)] @@ NxapiMedia(s, n) :
        n \in DomNames("nxapi"), s \in 0..(Len(FlagSeq) - 1)}
    \cup
    {[interface |-> n,
      rx_pwr |-> Rot(s, 0), temperature |-> Rot(s, 2),
      rx_pwr_flag |-> FlagRot(s, 0), temp_flag |-> FlagRot(s, 2)] @@ NxapiMedia(s, n) :
        n \in DomNames("nxapi"), s \in 0..(Len(FlagSeq) - 1)}

\* one ROW_interface of "show interface status"; the name element holds the
\* description and is empty or left out when none is configured
NxapiStatusRecs ==
    [state : CiscoStatusVals, name : {"uplink", ""}] \cup [state : CiscoStatusVals]

\* the output of a failed NX-API command is either an element without the
\* rows asked for or no element at all
NxapiFailedOutputs == {[rows |-> <<>>], [none |-> TRUE]}

NxapiDomResults ==
    {[ok |-> TRUE, output |-> [rows |-> l]] : l \in Lists(NxapiDomRows)}
    \cup {[ok |-> FALSE, output |-> o] : o \in NxapiFailedOutputs}

NxapiStatusResults ==
    {[ok |-> TRUE, output |-> [rows |-> t]] :
        t \in Tables(StNames("nxapi"), NxapiStatusRecs)}
    \cup {[ok |-> FALSE, output |-> o] : o \in NxapiFailedOutputs}

_METRIC_VALUE_MAP == {"voltage", "tx_pwr", "rx_pwr", "temperature"}

_METRIC_STATUS_MAP == {"rx_pwr_flag", "tx_pwr_flag", "volt_flag", "temp_flag"}

\* the metric class a field of _METRIC_VALUE_MAP / _METRIC_STATUS_MAP maps to
metric_cls(nx_field, value, tags) ==
    CASE nx_field = "voltage"     -> IFdomVoltageMetric(value, tags)
      [] nx_field = "tx_pwr"      -> IFdomTxPowerMetric(value, tags)
      [] nx_field = "rx_pwr"      -> IFdomRxPowerMetric(value, tags)
      [] nx_field = "temperature" -> IFdomTempMetric(value, tags)
      [] nx_field = "rx_pwr_flag" -> IFdomRxPowerStatusMetric(value, tags)
      [] nx_field = "tx_pwr_flag" -> IFdomTxPowerStatusMetric(value, tags)
      [] nx_field = "volt_flag"   -> IFdomVoltageStatusMetric(value, tags)
      [] nx_field = "temp_flag"   -> IFdomTempStatusMetric(value, tags)

nxapi_allow_interface(config_include_linkdown, if_status) ==
    IF if_status = "disabled" THEN FALSE
    ELSE IF config_include_linkdown THEN TRUE
    ELSE if_status = "connected"

\* the exception of (if_dom_item["type"] or if_dom_item["partnum"]).strip(),
\* "" when the expression has a value
if_media_error(if_dom_item) ==
    IF "type" \notin DOMAIN if_dom_item THEN "KeyError: 'type'"
    ELSE IF if_dom_item["type"] # "" THEN ""
    ELSE IF "partnum" \notin DOMAIN if_dom_item THEN "KeyError: 'partnum'"
    ELSE IF if_dom_item["partnum"] = ""
         THEN "AttributeError: 'NoneType' object has no attribute 'strip'"
    ELSE ""

\* the metrics one pass of the loop of generate_metrics yields
nxapi_generate_item(if_dom_item, if_status) ==
    LET if_name == if_dom_item["interface"]
        findtext_name == IF "name" \in DOMAIN if_status THEN if_status["name"] ELSE ""
        if_desc == py_strip(findtext_name)
        if_media == py_strip(IF if_dom_item["type"] # "" THEN if_dom_item["type"]
                             ELSE if_dom_item["partnum"])
        if_tags == [if_name |-> if_name, if_desc |-> if_desc, media |-> if_media]
    IN  {metric_cls(nx_field, [float |-> if_dom_item[nx_field]], if_tags) :
            nx_field \in {f \in _METRIC_VALUE_MAP : f \in DOMAIN if_dom_item}}
        \cup
        {metric_cls(nx_field,
                    [int |-> from_ifdomflag_to_status(if_dom_item[nx_field])],
                    if_tags) :
            nx_field \in {f \in _METRIC_STATUS_MAP :
                            f \in DOMAIN if_dom_item /\ if_dom_item[f] # ""}}

nxapi_get_dom_metrics(ifs_dom_res, ifs_status_res, config_include_linkdown) ==
    IF "rows" \notin DOMAIN ifs_dom_res.output THEN Raise
    ELSE LET ifs_dom_data == ifs_dom_res.output["rows"]
             items == 1..Len(ifs_dom_data)
         IN  IF items = {} THEN ReturnList(<<>>)
             ELSE IF "rows" \notin DOMAIN ifs_status_res.output THEN Raise
             ELSE LET status_rows == ifs_status_res.output["rows"]
                      found(i) == ifs_dom_data[i]["interface"] \in DOMAIN status_rows
                      if_status(i) == status_rows[ifs_dom_data[i]["interface"]]
                      allowed == {i \in items :
                                    /\ found(i)
                                    /\ nxapi_allow_interface(config_include_linkdown,
                                                             if_status(i)["state"])}
                      M == [i \in allowed |->
                               nxapi_generate_item(ifs_dom_data[i], if_status(i))]
                      \* the exception pass i of the loop ends with, "" if none
                      error(i) ==
                          IF ~found(i) THEN "IndexError: list index out of range"
                          ELSE IF i \notin allowed THEN ""
                          ELSE if_media_error(ifs_dom_data[i])
                      failing == {i \in items : error(i) # ""}
                  IN  IF failing # {}
                      THEN RaiseExc(error(CHOOSE i \in failing :
                                              \A j \in failing : i <= j))
                      ELSE ReturnList(M)

\* ------------------------------------------------------------------------
\*                          the state machine
\* ------------------------------------------------------------------------

NoResult == [none |-> TRUE]

\* a device of some type is configured; no poll has run
InitPoll ==
    /\ adapter \in Adapters
    /\ include_linkdown \in BOOLEAN
    /\ dom_res = NoResult
    /\ st_res = NoResult
    /\ pc = "idle"
    /\ outcome = ReturnNone

InitClassifierIdle ==
    /\ cl_x = 0
    /\ cl_y = 0
    /\ cl_thr = [lowAlarm |-> 0, lowWarn |-> 0, highWarn |-> 0, highAlarm |-> 0]
    /\ cl_rx = 0
    /\ cl_ry = 0
    /\ cl_pc = "input"

\* the two devices of the concurrent executor, one per NX-API / eAPI adapter
Devices == {"d1", "d2"}
DeviceAdapter == [d1 |-> "eapi", d2 |-> "nxapi"]

\* a device whose collector task waits for its next poll
IdleDevice(d, config_include_linkdown) ==
    [adapter |-> DeviceAdapter[d],
     include_linkdown |-> config_include_linkdown,
     timestamp |-> 0,
     pc |-> "idle",
     dom_res |-> NoResult,
     st_res |-> NoResult,
     outcome |-> ReturnNone]

InitDevicesIdle == devs = [d \in Devices |-> IdleDevice(d, FALSE)]

Init == InitPoll /\ InitClassifierIdle /\ InitDevicesIdle

\* one poll cycle of an Arista device: the two commands are executed and
\* get_dom_metrics runs to its end
Poll_eapi ==
    /\ adapter = "eapi"
    /\ pc = "idle"
    /\ \E d \in EapiDomResults, s \in EapiDescResults :
          /\ dom_res' = d
          /\ st_res' = s
          /\ outcome' = eapi_get_dom_metrics(d, s, include_linkdown)
    /\ pc' = "done"
    /\ UNCHANGED <<adapter, include_linkdown, clvars, devs>>

Poll_ios_ssh ==
    /\ adapter = "ios_ssh"
    /\ pc = "idle"
    /\ \E d \in SshDomResults("ios_ssh"), s \in SshStatusResults("ios_ssh") :
          /\ dom_res' = d
          /\ st_res' = s
          /\ outcome' = ios_get_dom_metrics(s, d, include_linkdown)
    /\ pc' = "done"
    /\ UNCHANGED <<adapter, include_linkdown, clvars, devs>>

Poll_nxos_ssh ==
    /\ adapter = "nxos_ssh"
    /\ pc = "idle"
    /\ \E d \in SshDomResults("nxos_ssh"), s \in SshStatusResults("nxos_ssh") :
          /\ dom_res' = d
          /\ st_res' = s
          /\ outcome' = nxos_get_dom_metrics(s, d, include_linkdown)
    /\ pc' = "done"
    /\ UNCHANGED <<adapter, include_linkdown, clvars, devs>>

Poll_nxapi ==
    /\ adapter = "nxapi"
    /\ pc = "idle"
    /\ \E d \in NxapiDomResults, s \in NxapiStatusResults :
          /\ dom_res' = d
          /\ st_res' = s
          /\ outcome' = nxapi_get_dom_metrics(d, s, include_linkdown)
    /\ pc' = "done"
    /\ UNCHANGED <<adapter, include_linkdown, clvars, devs>>

\* the executor schedules the next poll of the device
NextCycle ==
    /\ pc = "done"
    /\ pc' = "idle"
    /\ dom_res' = NoResult
    /\ st_res' = NoResult
    /\ outcome' = ReturnNone
    /\ UNCHANGED <<adapter, include_linkdown, clvars, devs>>

Next ==
    \/ Poll_eapi
    \/ Poll_ios_ssh
    \/ Poll_nxos_ssh
    \/ Poll_nxapi
    \/ NextCycle

Spec == Init /\ [][Next]_vars

\* ---- the classifier on its own ----

InitClassifier ==
    /\ cl_x \in Vals
    /\ cl_y \in Vals
    /\ cl_thr \in Thresholds
    /\ cl_rx = 0
    /\ cl_ry = 0
    /\ cl_pc = "input"
    /\ adapter = "eapi"
    /\ include_linkdown = FALSE
    /\ dom_res = NoResult
    /\ st_res = NoResult
    /\ pc = "idle"
    /\ outcome = ReturnNone
    /\ InitDevicesIdle

Classify ==
    /\ cl_pc = "input"
    /\ cl_rx' = _threshold_outside(cl_x, cl_thr)
    /\ cl_ry' = _threshold_outside(cl_y, cl_thr)
    /\ cl_pc' = "done"
    /\ UNCHANGED <<cl_x, cl_y, cl_thr, pollvars, devs>>

NextClassifier == Classify

SpecClassifier == InitClassifier /\ [][NextClassifier]_vars

\* ---- one device type at a time ----

InitEapi == Init /\ adapter = "eapi"
NextEapi == Poll_eapi \/ NextCycle
SpecEapi == InitEapi /\ [][NextEapi]_vars

InitIos == Init /\ adapter = "ios_ssh"
NextIos == Poll_ios_ssh \/ NextCycle
SpecIos == InitIos /\ [][NextIos]_vars

InitNxapi == Init /\ adapter = "nxapi"
NextNxapi == Poll_nxapi \/ NextCycle
SpecNxapi == InitNxapi /\ [][NextNxapi]_vars

InitNxos == Init /\ adapter = "nxos_ssh"
NextNxos == Poll_nxos_ssh \/ NextCycle
SpecNxos == InitNxos /\ [][NextNxos]_vars

\* ---- two devices polled concurrently ----

\* the executor calls get_dom_metrics with the time of the poll
Timestamps == {1, 2}

\* what one port of each device answers
OnePort(t) == DOMAIN t \subseteq {Ethernet1}

PortEapiDomResults ==
    {r \in EapiDomResults : r.ok => OnePort(r.output["interfaces"])}

PortEapiDescResults ==
    {r \in EapiDescResults : r.ok => OnePort(r.output["interfaceDescriptions"])}

PortNxapiDomResults ==
    {r \in NxapiDomResults :
        r.ok => /\ Len(r.output["rows"]) <= 1
                /\ \A i \in DOMAIN r.output["rows"] :
                      r.output["rows"][i]["interface"] = Ethernet1}

PortNxapiStatusResults ==
    {r \in NxapiStatusResults : r.ok => OnePort(r.output["rows"])}

\* every metric of the batch is constructed with ts=timestamp
with_ts(out, timestamp) ==
    LET stamped(m) == [name |-> m.name, vtype |-> m.vtype, value |-> m.value,
                       tags |-> m.tags, ts |-> timestamp]
        unstamped(sm) == [name |-> sm.name, vtype |-> sm.vtype, value |-> sm.value,
                          tags |-> sm.tags]
    IN  [out EXCEPT !.metrics =
            [sm \in {stamped(m) : m \in BagToSet(out.metrics)} |->
                out.metrics[unstamped(sm)]]]

\* bug variant: config and timestamp are kept in module-level variables
\* that the call of the other device overwrites
call_args_shared(d) ==
    LET e == CHOOSE other \in Devices : other # d
    IN  IF devs[e].pc = "idle"
        THEN [config_include_linkdown |-> devs[d].include_linkdown,
              timestamp |-> devs[d].timestamp]
        ELSE [config_include_linkdown |-> devs[e].include_linkdown,
              timestamp |-> devs[e].timestamp]

\* the parameters config and timestamp of the call running for device d
call_args(d) ==
    [config_include_linkdown |-> devs[d].include_linkdown,
     timestamp |-> devs[d].timestamp]

InitDevices ==
    devs \in {[d \in Devices |-> IdleDevice(d, c[d])] : c \in [Devices -> BOOLEAN]}

InitTwo ==
    /\ InitDevices
    /\ InitClassifierIdle
    /\ adapter = "eapi"
    /\ include_linkdown = FALSE
    /\ dom_res = NoResult
    /\ st_res = NoResult
    /\ pc = "idle"
    /\ outcome = ReturnNone

\* the collector task of device d calls get_dom_metrics, which runs up to
\* its await of the device commands
StartPoll(d) ==
    /\ devs[d].pc = "idle"
    /\ \E t \in Timestamps :
          devs' = [devs EXCEPT ![d].timestamp = t, ![d].pc = "awaiting"]
    /\ UNCHANGED <<pollvars, clvars>>

\* the commands of device d return and its coroutine runs to its end
Resume_eapi(d) ==
    /\ devs[d].adapter = "eapi"
    /\ devs[d].pc = "awaiting"
    /\ \E r \in PortEapiDomResults, s \in PortEapiDescResults :
          devs' = [devs EXCEPT
                     ![d].dom_res = r,
                     ![d].st_res = s,
                     ![d].outcome =
                        with_ts(eapi_get_dom_metrics(
                                    r, s, call_args(d).config_include_linkdown),
                                call_args(d).timestamp),
                     ![d].pc = "done"]
    /\ UNCHANGED <<pollvars, clvars>>

Resume_nxapi(d) ==
    /\ devs[d].adapter = "nxapi"
    /\ devs[d].pc = "awaiting"
    /\ \E r \in PortNxapiDomResults, s \in PortNxapiStatusResults :
          devs' = [devs EXCEPT
                     ![d].dom_res = r,
                     ![d].st_res = s,
                     ![d].outcome =
                        with_ts(nxapi_get_dom_metrics(
                                    r, s, call_args(d).config_include_linkdown),
                                call_args(d).timestamp),
                     ![d].pc = "done"]
    /\ UNCHANGED <<pollvars, clvars>>

\* the executor takes the batch of device d and schedules its next poll
NextCycleOf(d) ==
    /\ devs[d].pc = "done"
    /\ devs' = [devs EXCEPT ![d] = IdleDevice(d, devs[d].include_linkdown)]
    /\ UNCHANGED <<pollvars, clvars>>

NextTwo ==
    \E d \in Devices :
        \/ StartPoll(d)
        \/ Resume_eapi(d)
        \/ Resume_nxapi(d)
        \/ NextCycleOf(d)

SpecTwo == InitTwo /\ [][NextTwo]_vars

\* ------------------------------------------------------------------------
\*                     properties of the classifier
\* ------------------------------------------------------------------------

Alarm(v, t) == v <= t["lowAlarm"] \/ v >= t["highAlarm"]
Warn(v, t) == v <= t["lowWarn"] \/ v >= t["highWarn"]
Ordered(t) ==
    /\ t["lowAlarm"] < t["lowWarn"]
    /\ t["lowWarn"] < t["highWarn"]
    /\ t["highWarn"] < t["highAlarm"]

\* C1: the classifier returns 2 exactly when the value is at or beyond an
\* alarm bound, 1 exactly when it is not but is at or beyond a warn bound,
\* and 0 exactly when it is neither; the alarm test wins over the warn test.
C1_ClassifierCases ==
    cl_pc = "done" =>
        /\ (cl_rx = 2) <=> Alarm(cl_x, cl_thr)
        /\ (cl_rx = 1) <=> (~Alarm(cl_x, cl_thr) /\ Warn(cl_x, cl_thr))
        /\ (cl_rx = 0) <=> (~Alarm(cl_x, cl_thr) /\ ~Warn(cl_x, cl_thr))
        /\ cl_rx \in {0, 1, 2}

\* an alarm condition and a warn condition hold together and the result is 2
C1_Witness ==
    /\ cl_pc = "done"
    /\ cl_x >= cl_thr["highAlarm"]
    /\ cl_x > cl_thr["lowAlarm"]
    /\ cl_x <= cl_thr["lowWarn"]
    /\ cl_rx = 2

BoundaryCase(v, r, t) ==
    /\ (v = t["lowAlarm"] \/ v = t["highAlarm"]) => r = 2
    /\ (v = t["lowWarn"] \/ v = t["highWarn"]) => r = 1
    /\ (t["lowWarn"] < v /\ v < t["highWarn"]) => r = 0

\* C2: with lowAlarm < lowWarn < highWarn < highAlarm, a value equal to an
\* alarm bound classifies as 2, a value equal to a warn bound as 1, and a
\* value strictly between the warn bounds as 0.
C2_BoundaryInclusive ==
    (cl_pc = "done" /\ Ordered(cl_thr)) =>
        /\ BoundaryCase(cl_x, cl_rx, cl_thr)
        /\ BoundaryCase(cl_y, cl_ry, cl_thr)

C2_Witness ==
    /\ cl_pc = "done"
    /\ Ordered(cl_thr)
    /\ cl_x = cl_thr["lowWarn"]
    /\ cl_rx = 1
    /\ cl_y = cl_thr["highAlarm"]
    /\ cl_ry = 2

\* C3: with ordered thresholds and a nominal point c strictly between the
\* warn bounds, c <= x <= y implies classify(x) <= classify(y), and
\* y <= x <= c implies classify(x) <= classify(y).
C3_Monotone ==
    (cl_pc = "done" /\ Ordered(cl_thr)) =>
        \A c \in Vals :
            (cl_thr["lowWarn"] < c /\ c < cl_thr["highWarn"]) =>
                /\ (c <= cl_x /\ cl_x <= cl_y) => cl_rx <= cl_ry
                /\ (cl_y <= cl_x /\ cl_x <= c) => cl_rx <= cl_ry

\* x is an alarm value and y lies further out, beyond the alarm bound
C3_Witness ==
    /\ cl_pc = "done"
    /\ Ordered(cl_thr)
    /\ cl_thr["highWarn"] - cl_thr["lowWarn"] >= 2
    /\ cl_x = cl_thr["highAlarm"]
    /\ cl_y > cl_x
    /\ cl_rx = 2
    /\ cl_ry = 2

\* ------------------------------------------------------------------------
\*                       properties of one poll
\* ------------------------------------------------------------------------

AdminDownVal == IF adapter = "eapi" THEN "adminDown" ELSE "disabled"
LinkUpVal == IF adapter = "eapi" THEN "up" ELSE "connected"
FlagAdapters == {"ios_ssh", "nxos_ssh", "nxapi"}

\* the command returned a failed result
DomFailed == IF adapter \in {"ios_ssh", "nxos_ssh"} THEN dom_res.failed ELSE ~dom_res.ok
StatusFailed == IF adapter \in {"ios_ssh", "nxos_ssh"} THEN st_res.failed ELSE ~st_res.ok

\* the state of every interface of the status / description collection
StatusOf ==
    IF StatusFailed THEN <<>>
    ELSE CASE adapter = "eapi" ->
                [n \in DOMAIN st_res.output["interfaceDescriptions"] |->
                    st_res.output["interfaceDescriptions"][n]["interfaceStatus"]]
           [] adapter \in {"ios_ssh", "nxos_ssh"} ->
                [n \in DOMAIN st_res.parsed |-> st_res.parsed[n]["if_status"]]
           [] adapter = "nxapi" ->
                [n \in DOMAIN st_res.output["rows"] |-> st_res.output["rows"][n]["state"]]

\* the interfaces that have optics data
OpticsNames ==
    IF DomFailed THEN {}
    ELSE CASE adapter = "eapi" ->
                {n \in DOMAIN dom_res.output["interfaces"] :
                    DOMAIN dom_res.output["interfaces"][n] # {}}
           [] adapter \in {"ios_ssh", "nxos_ssh"} -> DOMAIN dom_res.parsed
           [] adapter = "nxapi" ->
                {dom_res.output["rows"][i]["interface"] :
                    i \in 1..Len(dom_res.output["rows"])}

\* the full name of a port: "Eth<n>" of the NX-OS status table is "Ethernet<n>"
FullName(n) ==
    IF adapter = "nxos_ssh" /\ Len(n) = 2 /\ n[1] = "Eth"
    THEN <<"Eth", "ernet", n[2]>>
    ELSE n

Emitted(n) == \E m \in BagToSet(outcome.metrics) : m.tags["if_name"] = n

Eligible(n) ==
    /\ StatusOf[n] # AdminDownVal
    /\ (include_linkdown \/ StatusOf[n] = LinkUpVal)

\* C4: in every adapter and for every include_linkdown, no metric is emitted
\* for an interface whose status is the administratively-disabled value.
C4_AdminDownNeverEmitted ==
    pc = "done" =>
        \A n \in DOMAIN StatusOf :
            StatusOf[n] = AdminDownVal => (~Emitted(n) /\ ~Emitted(FullName(n)))

\* a disabled port with optics, include_linkdown set, other metrics returned
C4_Witness ==
    /\ pc = "done"
    /\ include_linkdown
    /\ ~outcome.raised
    /\ outcome.metrics # EmptyBag
    /\ \E n \in DOMAIN StatusOf :
          StatusOf[n] = AdminDownVal /\ FullName(n) \in OpticsNames

\* C5: an interface with optics data that is in the status collection and not
\* administratively disabled has its metrics emitted whenever include_linkdown
\* is true, and exactly when its status is link-up otherwise.
C5_EligibleEmitted ==
    pc = "done" =>
        \A n \in DOMAIN StatusOf :
            (FullName(n) \in OpticsNames /\ StatusOf[n] # AdminDownVal) =>
                (Emitted(FullName(n)) <=> (include_linkdown \/ StatusOf[n] = LinkUpVal))

\* C6: when the optics command or the status command returns a failed
\* result, get_dom_metrics returns None or an empty list and does not raise.
C6_TransportFailureContained ==
    (pc = "done" /\ (DomFailed \/ StatusFailed)) =>
        /\ ~outcome.raised
        /\ outcome.ret \in {"None", "list"}
        /\ outcome.metrics = EmptyBag

\* the interfaces present in only one of the two collections
OneSided ==
    LET st == {FullName(n) : n \in DOMAIN StatusOf}
    IN  (st \ OpticsNames) \cup (OpticsNames \ st)

\* C7: when an interface is present in only one of the two collections, the
\* poll does not raise, that interface yields no metric and every other
\* eligible interface has its metrics returned.
C7_MissingCorrelatedExcluded ==
    (pc = "done" /\ ~DomFailed /\ ~StatusFailed /\ OneSided # {}) =>
        /\ ~outcome.raised
        /\ \A n \in OneSided : ~Emitted(n)
        /\ \A n \in DOMAIN StatusOf :
              (FullName(n) \in OpticsNames /\ Eligible(n)) => Emitted(FullName(n))

\* C8: every status metric emitted by any adapter has a value in {0, 1, 2};
\* no emitted status metric carries an untranslated vendor flag.
C8_StatusValueRange ==
    pc = "done" =>
        \A m \in BagToSet(outcome.metrics) :
            m.vtype = "status" => m.value \in {[int |-> 0], [int |-> 1], [int |-> 2]}

\* a flag-based adapter returned status metrics of value 0 and of value 2
C8_Witness ==
    /\ pc = "done"
    /\ adapter \in FlagAdapters
    /\ \E m \in BagToSet(outcome.metrics) : m.vtype = "status" /\ m.value = [int |-> 2]
    /\ \E m \in BagToSet(outcome.metrics) : m.vtype = "status" /\ m.value = [int |-> 0]

\* the vendor flags reported for interface n, each with the name of the
\* status metric of its measurement
FlagsOf(n) ==
    CASE adapter \in {"ios_ssh", "nxos_ssh"} ->
            {<<"ifdom_rxpower_status", dom_res.parsed[n]["rxpower_flag"]>>,
             <<"ifdom_txpower_status", dom_res.parsed[n]["txpower_flag"]>>,
             <<"ifdom_temp_status", dom_res.parsed[n]["temp_flag"]>>,
             <<"ifdom_voltag_status", dom_res.parsed[n]["voltage_flag"]>>}
      [] adapter = "nxapi" ->
            LET rows == dom_res.output["rows"]
                mine == {i \in 1..Len(rows) : rows[i]["interface"] = n}
                F(field, name) == {<<name, rows[i][field]>> :
                                      i \in {j \in mine : field \in DOMAIN rows[j]}}
            IN  F("rx_pwr_flag", "ifdom_rxpower_status")
                \cup F("tx_pwr_flag", "ifdom_txpower_status")
                \cup F("temp_flag", "ifdom_temp_status")
                \cup F("volt_flag", "ifdom_voltag_status")
      [] OTHER -> {}

\* the measurement that sits on the bound a vendor flag stands for
BoundOfFlag(flag, t) ==
    CASE flag = "++" -> t["highAlarm"]
      [] flag = "+"  -> t["highWarn"]
      [] flag = "-"  -> t["lowWarn"]
      [] flag = "--" -> t["lowAlarm"]

OrderedThresholds == {t \in Thresholds : Ordered(t)}

\* C9: in every flag-based adapter a measurement flagged high-alarm is
\* emitted with status 2, and for each alarm or warn flag the emitted status
\* is what the classifier returns for a measurement on the matching bound.
C9_FlagTranslationAgrees ==
    (pc = "done" /\ adapter \in FlagAdapters /\ ~DomFailed /\ ~StatusFailed) =>
        \A n \in DOMAIN StatusOf :
            (FullName(n) \in OpticsNames /\ Eligible(n)) =>
                \A nf \in FlagsOf(FullName(n)) :
                    nf[2] \in {"++", "+", "-", "--"} =>
                        \E m \in BagToSet(outcome.metrics) :
                            /\ m.name = nf[1]
                            /\ m.tags["if_name"] = FullName(n)
                            /\ nf[2] = "++" => m.value = [int |-> 2]
                            /\ \A t \in OrderedThresholds :
                                  m.value =
                                    [int |-> _threshold_outside(BoundOfFlag(nf[2], t), t)]

\* no interface has a transceiver reporting values
OpticsEmpty ==
    CASE adapter = "eapi" -> dom_res.ok /\ OpticsNames = {}
      [] adapter \in {"ios_ssh", "nxos_ssh"} -> DOMAIN dom_res.parsed = {}
      [] adapter = "nxapi" ->
            "rows" \in DOMAIN dom_res.output /\ dom_res.output["rows"] = <<>>

\* C10: when the optics collection is empty, get_dom_metrics returns None or
\* an empty list, emits no metric and does not raise, whatever the status
\* collection that was fetched contains.
C10_NoOpticsShortCircuit ==
    (pc = "done" /\ OpticsEmpty /\ ~StatusFailed) =>
        /\ ~outcome.raised
        /\ outcome.ret \in {"None", "list"}
        /\ outcome.metrics = EmptyBag

\* no optics, while the status collection lists a link-up interface; on the
\* Arista device that interface is in the optics output without DOM data
C10_Witness ==
    /\ pc = "done"
    /\ OpticsEmpty
    /\ ~StatusFailed
    /\ ~outcome.raised
    /\ \E n \in DOMAIN StatusOf :
          /\ StatusOf[n] = LinkUpVal
          /\ adapter = "eapi" => n \in DOMAIN dom_res.output["interfaces"]

\* ------------------------------------------------------------------------
\*                       the declared metric kinds
\* ------------------------------------------------------------------------

\* the names of the metric classes listed in IFdomCollector.metrics
IFdomCollector_metrics ==
    LET no_tags == [if_name |-> <<>>, if_desc |-> "", media |-> ""]
    IN  {IFdomRxPowerMetric([float |-> 0], no_tags).name,
         IFdomRxPowerStatusMetric([int |-> 0], no_tags).name,
         IFdomTxPowerMetric([float |-> 0], no_tags).name,
         IFdomTxPowerStatusMetric([int |-> 0], no_tags).name,
         IFdomTempMetric([float |-> 0], no_tags).name,
         IFdomTempStatusMetric([int |-> 0], no_tags).name,
         IFdomVoltageMetric([float |-> 0], no_tags).name,
         IFdomVoltageStatusMetric([int |-> 0], no_tags).name}

ValueKindNames == {"ifdom_txpower", "ifdom_rxpower", "ifdom_temp", "ifdom_voltage"}
EightKindNames == ValueKindNames \cup {v \o "_status" : v \in ValueKindNames}

\* C11: the collector declares exactly eight metric kinds, the four value
\* kinds and for each of them the kind named <value kind>_status, and every
\* metric a poll emits carries one of these eight names.
C11_EightKinds ==
    (pc = "done" /\ outcome.metrics # EmptyBag) =>
        /\ IFdomCollector_metrics = EightKindNames
        /\ \A m \in BagToSet(outcome.metrics) : m.name \in EightKindNames

\* ------------------------------------------------------------------------
\*                        the tags of a metric
\* ------------------------------------------------------------------------

\* C12: the if_desc tag of every emitted metric is a non-empty string; an
\* interface for which the device reports no description is emitted with a
\* placeholder description.
C12_DescNonEmpty ==
    pc = "done" =>
        \A m \in BagToSet(outcome.metrics) : m.tags["if_desc"] # ""

\* ------------------------------------------------------------------------
\*                 the interface names of the NX-OS SSH adapter
\* ------------------------------------------------------------------------

\* a status-table name of the abbreviated form "Eth<suffix>"
Abbreviated(n) == Len(n) = 2 /\ n[1] = "Eth"

\* a name of the canonical form "Ethernet<suffix>"
Canonical(n) == Len(n) = 3 /\ n[1] = "Eth" /\ n[2] = "ernet"

MetricsOf(n) == {m \in BagToSet(outcome.metrics) : m.tags["if_name"] = n}

\* C13: in nxos_ssh an eligible status-table interface "Eth<suffix>" whose
\* optics record is named "Ethernet<suffix>" has its eight metrics emitted
\* under the name "Ethernet<suffix>", and an interface present in only one of
\* the two collections after normalization yields no metric.
C13_AbbreviatedJoined ==
    (pc = "done" /\ adapter = "nxos_ssh") =>
        /\ \A n \in DOMAIN StatusOf :
              (Abbreviated(n) /\ Eligible(n)
                 /\ <<"Eth", "ernet", n[2]>> \in OpticsNames) =>
                    /\ Cardinality(MetricsOf(<<"Eth", "ernet", n[2]>>)) = 8
                    /\ MetricsOf(n) = {}
        /\ \A n \in OneSided : MetricsOf(n) = {}

\* Eth1 is link-up and joined with the optics record Ethernet1, while the
\* optics record Ethernet2 has no status entry
C13_Witness ==
    /\ pc = "done"
    /\ adapter = "nxos_ssh"
    /\ ~include_linkdown
    /\ Eth1 \in DOMAIN StatusOf
    /\ StatusOf[Eth1] = "connected"
    /\ OpticsNames = {Ethernet1, Ethernet2}
    /\ Eth2 \notin DOMAIN StatusOf
    /\ MetricsOf(Ethernet1) # {}
    /\ MetricsOf(Ethernet2) = {}

\* the exceptions of deriving the media tag
MediaErrors ==
    {"KeyError: 'type'", "KeyError: 'partnum'",
     "AttributeError: 'NoneType' object has no attribute 'strip'"}

\* the primary model / type field and the part number the device reports
\* for interface n, "" for a field that is empty or absent
MediaFieldsOf(n) ==
    CASE adapter = "eapi" ->
            {[primary |-> dom_res.output["interfaces"][n]["mediaType"], partnum |-> ""]}
      [] adapter = "ios_ssh" ->
            {[primary |-> st_res.parsed[n]["if_type"], partnum |-> ""]}
      [] adapter = "nxos_ssh" ->
            {[primary |-> st_res.parsed[s]["if_type"], partnum |-> ""] :
                s \in {t \in DOMAIN st_res.parsed : FullName(t) = n}}
      [] adapter = "nxapi" ->
            LET rows == dom_res.output["rows"]
                get(r, f) == IF f \in DOMAIN r THEN r[f] ELSE ""
            IN  {[primary |-> get(rows[i], "type"), partnum |-> get(rows[i], "partnum")] :
                    i \in {j \in 1..Len(rows) : rows[j]["interface"] = n}}

\* C14: the media tag of an emitted metric is the primary model / type field
\* of its interface when that field is non-empty and the part number
\* otherwise, and deriving the media tag never makes the poll raise.
C14_MediaFallback ==
    pc = "done" =>
        /\ ~(outcome.raised /\ outcome.exc \in MediaErrors)
        /\ \A m \in BagToSet(outcome.metrics) :
              \E f \in MediaFieldsOf(m.tags["if_name"]) :
                  m.tags["media"] = IF f.primary # "" THEN f.primary ELSE f.partnum

\* ------------------------------------------------------------------------
\*                  polls of two devices running concurrently
\* ------------------------------------------------------------------------

\* the batch that the raw outputs, config and timestamp of one poll give
BatchOf(p) ==
    with_ts(IF p.adapter = "eapi"
            THEN eapi_get_dom_metrics(p.dom_res, p.st_res, p.include_linkdown)
            ELSE nxapi_get_dom_metrics(p.dom_res, p.st_res, p.include_linkdown),
            p.timestamp)

CountOf(n, k) ==
    LET S == {m \in BagToSet(outcome.metrics) : m.tags["if_name"] = n /\ m.name = k}
    IN  BagCardinality([m \in S |-> outcome.metrics[m]])

\* C16: the batch returned by one poll holds at most one metric per pair
\* (interface name, metric kind), also when the optics collection lists an
\* interface more than once.
C16_OnePerInterfaceAndKind ==
    pc = "done" =>
        \A n \in OpticsNames : \A k \in IFdomCollector_metrics : CountOf(n, k) <= 1

\* ------------------------------------------------------------------------
\*                   the metrics of the Arista adapter
\* ------------------------------------------------------------------------

\* the status of a measurement against one threshold set
ExpectedStatus(v, t) == IF Alarm(v, t) THEN 2 ELSE IF Warn(v, t) THEN 1 ELSE 0

\* C17: in the eapi adapter the batch holds, for every eligible interface
\* with DOM data, the four value metrics with the raw txPower, rxPower,
\* temperature and voltage readings and the four status metrics, the status
\* of each kind being the classification of that kind's reading against
\* that kind's own thresholds.
C17_EapiMetricsPerInterface ==
    (pc = "done" /\ adapter = "eapi" /\ ~DomFailed /\ ~StatusFailed) =>
        \A n \in OpticsNames \cap DOMAIN StatusOf :
            Eligible(n) =>
                LET r == dom_res.output["interfaces"][n]
                    d == r["details"]
                    S == MetricsOf(n)
                IN  /\ Cardinality(S) = 8
                    /\ \E m \in S : m = IFdomTxPowerMetric([float |-> r["txPower"]], m.tags)
                    /\ \E m \in S : m = IFdomRxPowerMetric([float |-> r["rxPower"]], m.tags)
                    /\ \E m \in S : m = IFdomTempMetric([float |-> r["temperature"]], m.tags)
                    /\ \E m \in S : m = IFdomVoltageMetric([float |-> r["voltage"]], m.tags)
                    /\ \E m \in S : m = IFdomTxPowerStatusMetric(
                          [int |-> ExpectedStatus(r["txPower"], d["txPower"])], m.tags)
                    /\ \E m \in S : m = IFdomRxPowerStatusMetric(
                          [int |-> ExpectedStatus(r["rxPower"], d["rxPower"])], m.tags)
                    /\ \E m \in S : m = IFdomTempStatusMetric(
                          [int |-> ExpectedStatus(r["temperature"], d["temperature"])], m.tags)
                    /\ \E m \in S : m = IFdomVoltageStatusMetric(
                          [int |-> ExpectedStatus(r["voltage"], d["voltage"])], m.tags)

\* Ethernet1 is link-up and its rxPower reading lies below the low alarm
\* bound of rxPower, which differs from the one of txPower: the rxPower
\* value is emitted with rxPower status 2
C17_Witness ==
    /\ pc = "done"
    /\ adapter = "eapi"
    /\ ~DomFailed
    /\ ~StatusFailed
    /\ Ethernet1 \in OpticsNames \cap DOMAIN StatusOf
    /\ StatusOf[Ethernet1] = "up"
    /\ LET r == dom_res.output["interfaces"][Ethernet1]
       IN  /\ r["rxPower"] < r["details"]["rxPower"]["lowAlarm"]
           /\ r["details"]["rxPower"] # r["details"]["txPower"]
           /\ \E m \in MetricsOf(Ethernet1) :
                 m.name = "ifdom_rxpower" /\ m.value = [float |-> r["rxPower"]]
           /\ \E m \in MetricsOf(Ethernet1) :
                 m.name = "ifdom_rxpower_status" /\ m.value = [int |-> 2]

\* ------------------------------------------------------------------------
\*           full and foreign names in the NX-OS status table
\* ------------------------------------------------------------------------

\* C18: in nxos_ssh the normalization keeps a status-table name of the form
\* "Ethernet<suffix>" as it is, and such an interface, when eligible and
\* present under that name in the optics collection, has its metrics emitted.
C18_CanonicalNameKept ==
    (pc = "done" /\ adapter = "nxos_ssh" /\ ~StatusFailed) =>
        \A n \in DOMAIN StatusOf :
            Canonical(n) =>
                /\ n \in DOMAIN nxos_normalize(st_res.parsed)
                /\ (Eligible(n) /\ n \in OpticsNames) => MetricsOf(n) # {}

\* C19: in nxos_ssh an interface whose status-table name does not start with
\* "Eth" yields no metric, also when it is eligible and the optics collection
\* lists it under that name, and every emitted metric carries a name that
\* starts with "Eth".
C19_OnlyEthNames ==
    (pc = "done" /\ adapter = "nxos_ssh") =>
        /\ \A n \in DOMAIN StatusOf : Head(n) # "Eth" => MetricsOf(n) = {}
        /\ \A m \in BagToSet(outcome.metrics) : Head(m.tags["if_name"]) = "Eth"

\* mgmt0 is link-up and has an optics record, Eth1 is emitted as Ethernet1
C19_Witness ==
    /\ pc = "done"
    /\ adapter = "nxos_ssh"
    /\ ~StatusFailed
    /\ mgmt0 \in DOMAIN StatusOf
    /\ StatusOf[mgmt0] = "connected"
    /\ mgmt0 \in OpticsNames
    /\ MetricsOf(mgmt0) = {}
    /\ MetricsOf(Ethernet1) # {}

====
